---- MODULE Spec2Model ----
(***************************************************************************)
(* A model of govers: the flag-accepting command (src/unnamed/part_000)    *)
(* and the early command of src/govers.go.  Import paths are sequences of  *)
(* one-character strings, so that the regular expressions and the prefix   *)
(* substitution are computed character by character.                       *)
(***************************************************************************)
EXTENDS Integers, Sequences, FiniteSets, TLC

\* ------------------------------------------------------------------------
\* Regular expressions of part_000
\* ------------------------------------------------------------------------

Digits == {"0", "1", "2", "3", "4", "5", "6", "7", "8", "9"}

\* The separator class [/|\.] of versPat: inside a character class the bar is
\* a literal, so the class holds three characters.
VersSep == {"/", "|", "."}

Unstable == <<"-", "u", "n", "s", "t", "a", "b", "l", "e">>

\* A compiled pattern is a sequence of items: a literal character, any
\* character ("." of a -m regexp), or versPat.
Lit(c) == <<"lit", c>>
AnyChar == <<"any">>
versPat == <<"vers">>

HasPrefixAt(s, pos, t) ==
    /\ pos + Len(t) - 1 <= Len(s)
    /\ SubSeq(s, pos, pos + Len(t) - 1) = t

\* The position after the longest run of digits starting at pos: [0-9]+ is greedy.
RECURSIVE DigitsEnd(_, _)
DigitsEnd(s, pos) ==
    IF pos <= Len(s) /\ s[pos] \in Digits THEN DigitsEnd(s, pos + 1) ELSE pos

\* The leftmost-first match of items[i..] followed, when tail holds, by (/|$),
\* against s from pos on.  The result is the position after the last character
\* the items matched (the end of group 1), or 0 when nothing matches.
RECURSIVE MatchItems(_, _, _, _, _), MatchVersTail(_, _, _, _, _, _)
MatchItems(items, i, tail, s, pos) ==
    IF i > Len(items)
    THEN IF ~tail \/ pos = Len(s) + 1 \/ (pos <= Len(s) /\ s[pos] = "/")
         THEN pos ELSE 0
    ELSE IF items[i] = versPat
    THEN IF /\ pos + 2 <= Len(s)
            /\ s[pos] \in VersSep
            /\ s[pos + 1] = "v"
            /\ s[pos + 2] \in Digits
         THEN MatchVersTail(items, i, tail, s, pos + 2, DigitsEnd(s, pos + 2))
         ELSE 0
    ELSE IF pos > Len(s) THEN 0
    ELSE IF items[i] = AnyChar \/ items[i] = Lit(s[pos])
    THEN MatchItems(items, i + 1, tail, s, pos + 1)
    ELSE 0

\* versPat's digits end before q; (-unstable)? is tried present first, then
\* absent, then the digits give one back.
MatchVersTail(items, i, tail, s, start, q) ==
    IF q <= start THEN 0
    ELSE LET with == IF HasPrefixAt(s, q, Unstable)
                     THEN MatchItems(items, i + 1, tail, s, q + Len(Unstable))
                     ELSE 0
             without == IF with # 0 THEN with
                        ELSE MatchItems(items, i + 1, tail, s, q)
         IN  IF without # 0 THEN without
             ELSE MatchVersTail(items, i, tail, s, start, q - 1)

\* versRe of pathVersionPat: versPat + "(/|$)", unanchored.
versReAt(s, pos) == MatchItems(<<versPat>>, 1, TRUE, s, pos)

versReMatchString(s) == \E pos \in 1..Len(s) : versReAt(s, pos) # 0

\* versRe.ReplaceAllString(p, "#"): every leftmost match, its closing slash
\* included, becomes "#".
RECURSIVE versReReplaceAll(_, _), versReReplaceAt(_, _, _)
versReReplaceAll(s, pos) ==
    IF pos > Len(s) THEN <<>>
    ELSE versReReplaceAt(s, pos, versReAt(s, pos))

\* r is where group 1 of the match at pos ends, or 0 when pos starts no match.
versReReplaceAt(s, pos, r) ==
    IF r # 0
    THEN <<"#">> \o versReReplaceAll(s, IF r > Len(s) THEN r ELSE r + 1)
    ELSE <<s[pos]>> \o versReReplaceAll(s, pos + 1)

\* regexp.QuoteMeta followed by strings.Replace(p, "#", versPat, -1): every
\* character stands for itself except "#".
QuoteAndExpand(s) ==
    [k \in 1..Len(s) |-> IF s[k] = "#" THEN versPat ELSE Lit(s[k])]

\* A regexp value: items, whether (/|$) follows group 1, or NoPat.
NoPat == [items |-> <<>>, tail |-> FALSE, ok |-> FALSE]

pathVersionPat(p) ==
    IF ~versReMatchString(p) THEN NoPat
    ELSE [items |-> QuoteAndExpand(versReReplaceAll(p, 1)), tail |-> TRUE, ok |-> TRUE]

\* regexp.Compile("^(" + *match + ")") for a -m regexp made of ordinary
\* characters and ".".
CompileMatch(m) ==
    [items |-> [k \in 1..Len(m) |-> IF m[k] = "." THEN AnyChar ELSE Lit(m[k])],
     tail |-> FALSE, ok |-> TRUE]

\* oldPackagePat.FindStringSubmatchIndex(p): loc[3], the length of the prefix
\* group 1 matched, or -1 for a nil loc.
submatchEnd(r) == IF r = 0 THEN -1 ELSE r - 1

FindStringSubmatchIndex(pat, p) == submatchEnd(MatchItems(pat.items, 1, pat.tail, p, 1))

\* A fixPath that drops what follows the matched prefix.
fixPathAtDroppingRest(newPkg, p, i) == IF i = -1 THEN p ELSE newPkg

\* The body of fixPath once loc is known: i is loc[3], or -1 for a nil loc.
fixPathAt(newPkg, p, i) ==
    IF i = -1 THEN p
    ELSE IF SubSeq(p, 1, i) # newPkg
    THEN newPkg \o SubSeq(p, i + 1, Len(p))
    ELSE p

fixPath(pat, newPkg, p) == fixPathAt(newPkg, p, FindStringSubmatchIndex(pat, p))

\* ------------------------------------------------------------------------
\* The file system and go/build, as the commands see them
\* ------------------------------------------------------------------------

\* Directories, named by their path below GOPATH/src (a package's import path).
DirR == <<"r">>
DirRDot == <<"r", "/", ".", "h">>
DirRVendor == <<"r", "/", "v", "e", "n", "d", "o", "r">>
DirRVendorX == <<"r", "/", "v", "e", "n", "d", "o", "r", "/", "x">>
DirE == <<"e">>
DirEVendorOld == <<"e", "/", "v", "e", "n", "d", "o", "r", "/", "t", "/", "v", "1", "/", "s">>
OldPath == <<"t", "/", "v", "1", "/", "s">>
NewPath == <<"t", "/", "v", "2", "/", "s">>
PathX == <<"x">>

\* The command line of part_000 (govers t/v2) and of govers.go (govers t/v2/s).
ArgFlags == <<"t", "/", "v", "2">>
ArgGovers == NewPath

\* The directory the command is started in.
Cwd == DirR

\* Import strings in the sorted order go/build lists a package's imports in.
ImportOrder == <<DirE, DirR, OldPath, NewPath, PathX>>

FileIds == {"A1", "A2", "M1", "H1", "V1", "E1", "EV1", "T1", "T2"}

FileDir(f) ==
    CASE f \in {"A1", "A2", "M1"} -> DirR
      [] f = "H1" -> DirRDot
      [] f = "V1" -> DirRVendorX
      [] f = "E1" -> DirE
      [] f = "EV1" -> DirEVendorOld
      [] f = "T1" -> OldPath
      [] f = "T2" -> NewPath

\* Every file is a .go file except M1.
FileName(f) ==
    IF f = "M1" THEN <<"n", ".", "m", "d">>
    ELSE <<f, ".", "g", "o">>

\* ioutil.ReadDir's order: by file name.
DirListing == <<"A1", "A2", "E1", "EV1", "H1", "M1", "T1", "T2", "V1">>

\* The sizes of the import sets Init chooses for a.go.
MaxImports == 1

SmallSubsets(S) == {I \in SUBSET S : Cardinality(I) <= MaxImports}

File(kind, imports) ==
    [present |-> TRUE, kind |-> kind, imports |-> imports,
     parse |-> "ok", creatable |-> TRUE]

NoFile == [present |-> FALSE, kind |-> "go", imports |-> {},
           parse |-> "ok", creatable |-> TRUE]

\* What can be wrong with one file of the tree: a syntax error after its
\* imports, a file that cannot be created, a file that cannot be read.
Faults == {"none", "A1syntax", "A1nocreate", "A2unreadable"}

WithFault(files, fault) ==
    CASE fault = "none" -> files
      [] fault = "A1syntax" -> [files EXCEPT !["A1"].parse = "syntax"]
      [] fault = "A1nocreate" -> [files EXCEPT !["A1"].creatable = FALSE]
      [] fault = "A2unreadable" -> [files EXCEPT !["A2"].parse = "unreadable"]

\* The trees and import graphs a run starts from.
Worlds ==
    { WithFault(
        [f \in FileIds |->
            CASE f = "A1" -> File("go", a1)
              [] f = "A2" -> a2
              [] f = "M1" -> File("go", {})
              [] f = "H1" -> File("go", {OldPath})
              [] f = "V1" -> v1
              [] f = "E1" -> File("go", e1)
              [] f = "EV1" -> IF vendE THEN File("go", {}) ELSE NoFile
              [] f = "T1" -> File("go", {})
              [] f = "T2" -> File("go", {})],
        fault) :
        a1 \in SmallSubsets({OldPath, DirE, PathX}),
        a2 \in {File("ignored", {OldPath}), File("test", {OldPath}), File("test", {DirE})},
        v1 \in {NoFile, File("go", {OldPath}), File("go", {NewPath}), File("test", {OldPath})},
        e1 \in {{OldPath}, {NewPath}, {DirR}},
        vendE \in BOOLEAN,
        fault \in Faults }

VARIABLES
    pc,               \* where main is: start, walk, check, edit, exit, and the pattern probe's steps
    world,            \* the files' kinds and faults, fixed for the run
    disk,             \* the content of every file on disk
    noEdit,           \* -n
    noDependencies,   \* -d
    match,            \* -m, <<>> when not given
    newPackage,       \* context.newPackage (context.fixPackage in govers.go)
    oldPackagePat,    \* context.oldPackagePat
    fixPackageCanon,  \* context.fixPackageCanon of govers.go
    checked,          \* context.checked, as the set of keys that map to true
    editPkgs,         \* context.editPkgs
    failed,           \* context.failed
    checkTodo,        \* the entries main's first loop has not reached yet
    editTodo,         \* the entries main's second loop has not reached yet
    stdout,           \* the package paths printed
    stderr,           \* the messages logf has printed
    exitStatus,       \* the process's exit status, -1 while it runs
    runs,             \* history: how often checkPackage's body ran, per package
    written,          \* history: the files os.Create has truncated
    probe,            \* the pattern probe's import path
    result            \* the pattern probe's result

vars == <<pc, world, disk, noEdit, noDependencies, match, newPackage, oldPackagePat,
          fixPackageCanon, checked, editPkgs, failed, checkTodo, editTodo, stdout,
          stderr, exitStatus, runs, written, probe, result>>

\* strings.HasPrefix and strings.HasSuffix
HasPrefix(s, t) == HasPrefixAt(s, 1, t)

HasSuffix(s, t) == Len(t) <= Len(s) /\ SubSeq(s, Len(s) - Len(t) + 1, Len(s)) = t

Slashes(d) == {k \in 1..Len(d) : d[k] = "/"}

\* A directory and the directories above it, up to GOPATH/src.
Ancestors(d) == {d} \cup {SubSeq(d, 1, k - 1) : k \in Slashes(d)}

LastSlash(d) == IF Slashes(d) = {} THEN 0 ELSE CHOOSE k \in Slashes(d) : \A j \in Slashes(d) : j <= k

\* filepath.Join(path, entry.Name()) read backwards: the directory holding d
\* and d's name in it.
ParentDir(d) == SubSeq(d, 1, LastSlash(d) - 1)

BaseName(d) == SubSeq(d, LastSlash(d) + 1, Len(d))

PresentFiles == {f \in FileIds : world[f].present}

\* Every directory a tree of Worlds can hold, and per directory the .go files
\* ioutil.ReadDir lists in it when they are present, in its order.
AllDirs == UNION {Ancestors(FileDir(f)) : f \in FileIds}

DirAncestors == [d \in AllDirs |-> Ancestors(d)]

DirGoFiles ==
    [d \in AllDirs |->
        SelectSeq(DirListing,
                  LAMBDA f : FileDir(f) = d /\ HasSuffix(FileName(f), <<".", "g", "o">>))]

\* The directories walkDir may enter below each directory: those whose name
\* does not start with ".".
DirEntered ==
    [d \in AllDirs |->
        {c \in AllDirs : /\ LastSlash(c) > 0
                         /\ ParentDir(c) = d
                         /\ ~HasPrefix(BaseName(c), <<".">>)}]

Directories == UNION {DirAncestors[FileDir(f)] : f \in PresentFiles}

\* The .go files ioutil.ReadDir lists in a directory, in its order.
goFilesOf(path) ==
    IF path \in AllDirs
    THEN SelectSeq(DirGoFiles[path], LAMBDA f : world[f].present)
    ELSE <<>>

\* The directories walkDir reaches from path.
RECURSIVE walkedDirs(_)
walkedDirs(path) ==
    {path} \cup UNION {walkedDirs(d) : d \in DirEntered[path] \cap Directories}

\* walkDir(cwd): every directory reached is a package of GOPATH for
\* build.Import(".", path, build.FindOnly), and its entry lists its .go files.
walkDir(path) ==
    [d \in walkedDirs(path) |-> [goFiles |-> goFilesOf(d), needsEdit |-> FALSE]]

Range(s) == {s[k] : k \in 1..Len(s)}

\* The files of a directory go/build reads under the current build context.
buildFiles(dir) == {f \in Range(goFilesOf(dir)) : world[f].kind # "ignored"}

sortedImports(S) == SelectSeq(ImportOrder, LAMBDA q : q \in S)

VendorElem == <<"/", "v", "e", "n", "d", "o", "r", "/">>

\* The directories <ancestor of fromDir>/vendor/<path>, for the import strings
\* and importing directories of Worlds.
VendorDirs ==
    [path \in Range(ImportOrder), fromDir \in AllDirs |->
        {a \o VendorElem \o path : a \in Ancestors(fromDir)} \cap AllDirs]

\* The vendor directories that hold path for an importer in fromDir.
vendorCandidates(path, fromDir) ==
    IF fromDir = <<>> THEN {}
    ELSE LET dirs == IF <<path, fromDir>> \in DOMAIN VendorDirs
                     THEN VendorDirs[path, fromDir]
                     ELSE {a \o VendorElem \o path : a \in Ancestors(fromDir)}
         IN  {c \in dirs : goFilesOf(c) # <<>>}

\* buildCtxt.Import(path, fromDir, 0) with vendoring: the nearest vendor
\* directory wins, then GOPATH.  A package not found keeps the path it was
\* asked for and has no directory.
nearestVendor(path, cands) ==
    IF cands = {} THEN path
    ELSE CHOOSE c \in cands : \A o \in cands : Len(o) <= Len(c)

\* The error of Import: no directory, a file that cannot be read, no Go file
\* for the build context (*build.NoGoError), or nil.
importError(found, files) ==
    IF ~found THEN "notfound"
    ELSE IF \E f \in files : world[f].parse = "unreadable" THEN "read"
    ELSE IF files = {} THEN "nogo"
    ELSE "nil"

\* pkg.Imports (kind "go") and pkg.TestImports (kind "test") of the files read.
importsOfKind(files, kind) ==
    sortedImports(UNION {disk[f].imports : f \in {g \in files : world[g].kind = kind}})

\* The *build.Package for the directory resolved.
packageIn(resolved, found, files) ==
    [ImportPath |-> resolved,
     Dir |-> IF found THEN resolved ELSE <<>>,
     err |-> importError(found, files),
     Imports |-> importsOfKind(files, "go"),
     TestImports |-> importsOfKind(files, "test")]

importResolved(resolved) ==
    packageIn(resolved, resolved \in Directories, buildFiles(resolved))

Import(path, fromDir) ==
    importResolved(nearestVendor(path, vendorCandidates(path, fromDir)))

\* buildCtxt.Import(path, ".", 0) of govers.go: no importing directory, so no
\* vendor directory is searched.
ImportDot(path) == Import(path, <<>>)

\* ------------------------------------------------------------------------
\* part_000: the command with flags
\* ------------------------------------------------------------------------

\* The deepest chain of checkPackage calls followed.  The import graphs of
\* Worlds have no cycle but through a root's test imports, and their chains
\* are shorter; a chain that never ends exhausts the goroutine's stack and the
\* Go runtime ends the process.
MaxDepth == 8

Bump(f, k) == IF k \in DOMAIN f THEN [f EXCEPT ![k] = @ + 1] ELSE f @@ (k :> 1)

\* The part of the context checkPackage reads and writes.
checkState ==
    [checked |-> checked, needsEdit |-> {q \in DOMAIN editPkgs : editPkgs[q].needsEdit},
     failed |-> failed, stderr |-> stderr, runs |-> runs, overflow |-> FALSE]

\* ctxt.checked[path]: the test that guards checkPackage's body.
isChecked(st, path) == path \in st.checked

\* ctxt.checked[pkg.ImportPath] = true
markChecked(st, pkg) == [st EXCEPT !.checked = @ \cup {pkg.ImportPath}]

\* ep == nil: the package is not one of the root packages.
notRoot(path) == path \notin DOMAIN editPkgs

\* The imports checkPackage scans: test imports too for a root package.
allImports(path, pkg) ==
    IF notRoot(path) THEN pkg.Imports ELSE pkg.Imports \o pkg.TestImports

\* A checkPackage that recurses whatever -d says.
followsDependenciesAlways == TRUE

\* if !*noDependencies
followsDependencies == ~noDependencies

RECURSIVE checkPackage(_, _, _, _), checkImported(_, _, _, _), checkImports(_, _, _, _, _, _),
          checkImport(_, _, _, _, _, _, _, _), checkDependency(_, _, _, _)
checkPackage(st, path, fromDir, depth) ==
    IF st.overflow THEN st
    ELSE IF depth > MaxDepth THEN [st EXCEPT !.overflow = TRUE]
    ELSE IF path = <<"C">> THEN st
    ELSE IF isChecked(st, path) THEN st
    ELSE checkImported([markChecked(st, Import(path, fromDir))
                           EXCEPT !.runs = Bump(@, Import(path, fromDir).ImportPath)],
                       path, Import(path, fromDir), depth)

\* checkPackage from its test of err on: pkg is the package imported and
\* checked[pkg.ImportPath] is set.
checkImported(st, path, pkg, depth) ==
    IF pkg.err # "nil"
    THEN IF pkg.err # "nogo"
         THEN [st EXCEPT !.stderr = @ \cup {<<"cannot import", path>>}]
         ELSE st
    ELSE checkImports(st, path, pkg, allImports(path, pkg), 1, depth)

\* The loop over allImports, from its k-th element on.  The err the loop tests
\* is the nil one of the package's own import, so no element is skipped.
checkImports(st, path, pkg, imps, k, depth) ==
    IF k > Len(imps) \/ st.overflow THEN st
    ELSE checkImport(st, path, pkg, imps, k, depth,
                     Import(imps[k], pkg.Dir).ImportPath,
                     fixPath(oldPackagePat, newPackage, Import(imps[k], pkg.Dir).ImportPath))

\* The loop's body for imps[k]: imp is impPkg.ImportPath and p is fixPath of it.
checkImport(st, path, pkg, imps, k, depth, imp, p) ==
    IF p # imp /\ notRoot(path)
    THEN checkImports(
             [st EXCEPT !.failed = TRUE,
                        !.stderr = @ \cup {<<"inconsistent path", pkg.ImportPath, imp>>}],
             path, pkg, imps, k + 1, depth)
    ELSE checkImports(
             checkDependency(IF p # imp THEN [st EXCEPT !.needsEdit = @ \cup {path}] ELSE st,
                             IF p # imp THEN p ELSE imps[k],
                             Import(imps[k], pkg.Dir).Dir,
                             depth),
             path, pkg, imps, k + 1, depth)

\* if !*noDependencies { ctxt.checkPackage(impPath, impPkg.Dir) }
checkDependency(st, impPath, dir, depth) ==
    IF followsDependencies THEN checkPackage(st, impPath, dir, depth + 1) ELSE st

\* A changeVersion that writes whatever -n says.
returnsEarlyIgnoringNoEdit(changed, n) == ~changed

\* if !changed || *noEdit { return changed }
returnsEarly(changed, n) == ~changed \/ n

\* if err != nil { logf("cannot parse %q: %v", path, err) }
parseLog(f) == IF world[f].parse # "ok" THEN {<<"cannot parse", f>>} ELSE {}

\* What printConfig.Fprint writes for the file with its imports fixed: a
\* declaration the parser could not read is printed as BadDecl.
printedFile(f, content) ==
    [imports |-> {fixPath(oldPackagePat, newPackage, q) : q \in content.imports},
     body |-> IF world[f].parse = "syntax" THEN "BadDecl" ELSE content.body,
     layout |-> "printed"]

\* changeVersion after its loop over f.Imports: same is the result of a call
\* that leaves the file alone, same.changed the value of changed.
changeVersionFrom(f, content, n, same) ==
    IF world[f].parse = "unreadable" THEN [same EXCEPT !.changed = FALSE, !.panic = TRUE]
    ELSE IF returnsEarly(same.changed, n) THEN same
    ELSE IF ~world[f].creatable
    THEN [same EXCEPT !.changed = TRUE,
                      !.log = @ \cup {<<"cannot create file", f>>, <<"cannot write file", f>>}]
    ELSE [same EXCEPT !.changed = TRUE,
                      !.created = TRUE,
                      !.content = printedFile(f, content)]

\* The result of changeVersion(path) on file f: the value it returns, the
\* file's content afterwards, what it logs, whether it truncated the file and
\* whether it panicked (f.Imports of the nil *ast.File of an unreadable file).
\* n is *noEdit.
changeVersion(f, content, n) ==
    changeVersionFrom(
        f, content, n,
        [changed |-> \E q \in content.imports : fixPath(oldPackagePat, newPackage, q) # q,
         content |-> content,
         log |-> parseLog(f),
         created |-> FALSE,
         panic |-> FALSE])

\* for _, file := range ep.goFiles { changed = ctxt.changeVersion(file) || changed },
\* from the k-th file on; a panic ends the loop and the process.
\* changed = r || changed for the result r of changeVersion(file), with the
\* disk, the log and the files created so far.
afterFile(acc, file, r) ==
    [disk |-> [acc.disk EXCEPT ![file] = r.content],
     changed |-> r.changed \/ acc.changed,
     log |-> acc.log \cup r.log,
     created |-> IF r.created THEN acc.created \cup {file} ELSE acc.created,
     panic |-> r.panic]

RECURSIVE editFiles(_, _, _, _)
editFiles(files, k, acc, n) ==
    IF k > Len(files) \/ acc.panic THEN acc
    ELSE editFiles(files, k + 1,
                   afterFile(acc, files[k], changeVersion(files[k], acc.disk[files[k]], n)),
                   n)

\* The second loop's body for one package, started on the disk d.
editPackage(ep, d, n) ==
    editFiles(ep.goFiles, 1,
              [disk |-> d, changed |-> FALSE, log |-> {}, created |-> {}, panic |-> FALSE],
              n)

\* A main without the exit between its two loops.
exitsBeforeEditNever == FALSE

\* if ctxt.failed { os.Exit(1) } between the two loops of main
exitsBeforeEdit == failed

\* if !ep.needsEdit { continue }
skipsPackage(ep) == ~ep.needsEdit

\* if changed { fmt.Printf("%s\n", path) }
printed(out, path, changed) == IF changed THEN out \cup {path} ELSE out

Exit(status) ==
    /\ pc' = "exit"
    /\ exitStatus' = status

\* main up to the construction of the context: the flags are parsed and the
\* old-package pattern is compiled or derived; fatalf exits with status 2.
Start ==
    /\ pc = "start"
    /\ LET pat == IF match # <<>> THEN CompileMatch(match) ELSE pathVersionPat(newPackage)
       IN  /\ oldPackagePat' = pat
           /\ IF pat.ok
              THEN pc' = "walk" /\ UNCHANGED <<exitStatus, stderr>>
              ELSE Exit(2) /\ stderr' = stderr \cup {<<"is not versioned", newPackage>>}
    /\ UNCHANGED <<world, disk, noEdit, noDependencies, match, newPackage, fixPackageCanon,
                   checked, editPkgs, failed, checkTodo, editTodo, stdout, runs, written,
                   probe, result>>

\* ctxt.walkDir(cwd)
WalkDir ==
    /\ pc = "walk"
    /\ editPkgs' = walkDir(Cwd)
    /\ checkTodo' = DOMAIN editPkgs'
    /\ pc' = "check"
    /\ UNCHANGED <<world, disk, noEdit, noDependencies, match, newPackage, oldPackagePat,
                   fixPackageCanon, checked, failed, editTodo, stdout, stderr, exitStatus,
                   runs, written, probe, result>>

\* The context after a call of checkPackage that ends in st; a stack overflow
\* ends the process with status 2.
checkedTo(st) ==
    /\ checked' = st.checked
    /\ editPkgs' = [q \in DOMAIN editPkgs |-> [editPkgs[q] EXCEPT !.needsEdit = q \in st.needsEdit]]
    /\ failed' = st.failed
    /\ stderr' = st.stderr
    /\ runs' = st.runs
    /\ IF st.overflow THEN Exit(2) ELSE UNCHANGED <<pc, exitStatus>>

\* One iteration of for path := range ctxt.editPkgs { ctxt.checkPackage(path, cwd) }:
\* a map is ranged over in any order.
CheckRoot(path) ==
    /\ pc = "check"
    /\ path \in checkTodo
    /\ checkTodo' = checkTodo \ {path}
    /\ checkedTo(checkPackage(checkState, path, Cwd, 1))
    /\ UNCHANGED <<world, disk, noEdit, noDependencies, match, newPackage, oldPackagePat,
                   fixPackageCanon, editTodo, stdout, written, probe, result>>

\* The first loop is over: exit with status 1 when the check failed, else
\* start the second loop.
CheckDone ==
    /\ pc = "check"
    /\ checkTodo = {}
    /\ IF exitsBeforeEdit
       THEN Exit(1) /\ UNCHANGED editTodo
       ELSE pc' = "edit" /\ editTodo' = DOMAIN editPkgs /\ UNCHANGED exitStatus
    /\ UNCHANGED <<world, disk, noEdit, noDependencies, match, newPackage, oldPackagePat,
                   fixPackageCanon, checked, editPkgs, failed, checkTodo, stdout, stderr,
                   runs, written, probe, result>>

\* The files, the output and the process after the second loop's body has
\* ended in r for the package path; a panic ends the process with status 2.
editedTo(path, r) ==
    /\ disk' = r.disk
    /\ stderr' = stderr \cup r.log
    /\ written' = written \cup r.created
    /\ IF r.panic
       THEN Exit(2) /\ UNCHANGED stdout
       ELSE /\ stdout' = printed(stdout, path, r.changed)
            /\ UNCHANGED <<pc, exitStatus>>

\* One iteration of for path, ep := range ctxt.editPkgs { ... }.
EditPkg(path) ==
    /\ pc = "edit"
    /\ path \in editTodo
    /\ editTodo' = editTodo \ {path}
    /\ IF skipsPackage(editPkgs[path])
       THEN UNCHANGED <<disk, stdout, stderr, written, pc, exitStatus>>
       ELSE editedTo(path, editPackage(editPkgs[path], disk, noEdit))
    /\ UNCHANGED <<world, noEdit, noDependencies, match, newPackage, oldPackagePat,
                   fixPackageCanon, checked, editPkgs, failed, checkTodo, runs, probe, result>>

\* The second loop is over: if ctxt.failed { os.Exit(1) }, else main returns.
EditDone ==
    /\ pc = "edit"
    /\ editTodo = {}
    /\ Exit(IF failed THEN 1 ELSE 0)
    /\ UNCHANGED <<world, disk, noEdit, noDependencies, match, newPackage, oldPackagePat,
                   fixPackageCanon, checked, editPkgs, failed, checkTodo, editTodo, stdout,
                   stderr, runs, written, probe, result>>

initialDisk(w) ==
    [f \in FileIds |-> [imports |-> w[f].imports, body |-> "source", layout |-> "source"]]

\* The state main starts in, for every tree of Worlds and every -n and -d.
InitCommon ==
    /\ pc = "start"
    /\ world \in Worlds
    /\ disk = initialDisk(world)
    /\ match = <<>>
    /\ oldPackagePat = NoPat
    /\ fixPackageCanon = <<>>
    /\ checked = {}
    /\ editPkgs = <<>>
    /\ failed = FALSE
    /\ checkTodo = {}
    /\ editTodo = {}
    /\ stdout = {}
    /\ stderr = {}
    /\ exitStatus = -1
    /\ runs = <<>>
    /\ written = {}
    /\ probe = <<>>
    /\ result = <<>>

Init ==
    /\ InitCommon
    /\ noEdit \in BOOLEAN
    /\ noDependencies \in BOOLEAN
    /\ newPackage = ArgFlags

Next ==
    \/ Start
    \/ WalkDir
    \/ \E path \in checkTodo : CheckRoot(path)
    \/ CheckDone
    \/ \E path \in editTodo : EditPkg(path)
    \/ EditDone

Spec == Init /\ [][Next]_vars

\* ------------------------------------------------------------------------
\* part_000: the derived pattern and fixPath on their own
\* ------------------------------------------------------------------------

\* The import paths tried: t, a separator, v, a version, -unstable or not, and
\* what follows.
ProbeSeps == {<<"/">>, <<".">>, <<"|">>}

ProbeVersions == {<<"1">>, <<"2">>, <<"1", "2">>, <<"1", ".", "5">>}

ProbeRests == {<<>>, <<"/", "s">>, <<"s">>}

ProbePaths ==
    {<<"t">> \o sep \o <<"v">> \o ver \o suf \o rest :
        sep \in ProbeSeps, ver \in ProbeVersions, suf \in {<<>>, Unstable}, rest \in ProbeRests}
    \cup {<<"t">>, <<"u", ".", "v", "1">>}

\* The new-package-path arguments tried.
ProbeArgs ==
    {<<"t", ".", "v", "2">>, <<"t", "/", "v", "2">>, <<"t", "/", "v", "2", "/", "s">>,
     <<"t", ".", "v", "2">> \o Unstable, <<"t", ".", "v", "2", ".", "1">>, <<"t">>}

\* ctxt.fixPath(p) for the import path probed, once main has its pattern.
ProbeFixPath ==
    /\ pc = "walk"
    /\ result' = fixPath(oldPackagePat, newPackage, probe)
    /\ pc' = "matched"
    /\ UNCHANGED <<world, disk, noEdit, noDependencies, match, newPackage, oldPackagePat,
                   fixPackageCanon, checked, editPkgs, failed, checkTodo, editTodo, stdout,
                   stderr, exitStatus, runs, written, probe>>

InitPat ==
    /\ pc = "start"
    /\ world = <<>>
    /\ disk = <<>>
    /\ noEdit = FALSE
    /\ noDependencies = FALSE
    /\ match = <<>>
    /\ newPackage \in ProbeArgs
    /\ oldPackagePat = NoPat
    /\ fixPackageCanon = <<>>
    /\ checked = {}
    /\ editPkgs = <<>>
    /\ failed = FALSE
    /\ checkTodo = {}
    /\ editTodo = {}
    /\ stdout = {}
    /\ stderr = {}
    /\ exitStatus = -1
    /\ runs = <<>>
    /\ written = {}
    /\ probe \in ProbePaths
    /\ result = <<>>

NextPat ==
    \/ Start
    \/ ProbeFixPath

SpecPat == InitPat /\ [][NextPat]_vars

\* The -m regexps tried, beside no -m: "." stands for any character.
ProbeMatches ==
    {<<"t">>, <<"t", ".", "v", "1">>, <<"t", "/", "v", "2">>, <<"t", ".", "v", ".">>}

\* fixPath under either pattern main can select: the one compiled from -m or
\* the one derived from new-package-path.
InitFix ==
    /\ pc = "start"
    /\ world = <<>>
    /\ disk = <<>>
    /\ noEdit = FALSE
    /\ noDependencies = FALSE
    /\ match \in {<<>>} \cup ProbeMatches
    /\ newPackage \in ProbeArgs
    /\ oldPackagePat = NoPat
    /\ fixPackageCanon = <<>>
    /\ checked = {}
    /\ editPkgs = <<>>
    /\ failed = FALSE
    /\ checkTodo = {}
    /\ editTodo = {}
    /\ stdout = {}
    /\ stderr = {}
    /\ exitStatus = -1
    /\ runs = <<>>
    /\ written = {}
    /\ probe \in ProbePaths
    /\ result = <<>>

SpecFix == InitFix /\ [][NextPat]_vars

\* ------------------------------------------------------------------------
\* govers.go: the early command, without flags
\* ------------------------------------------------------------------------

\* versPat of govers.go, "/v[0-9]+/", at pos: the position after the match, or 0.
canonVersAt(s, pos) ==
    IF /\ pos + 3 <= Len(s)
       /\ s[pos] = "/"
       /\ s[pos + 1] = "v"
       /\ s[pos + 2] \in Digits
       /\ DigitsEnd(s, pos + 2) <= Len(s)
       /\ s[DigitsEnd(s, pos + 2)] = "/"
    THEN DigitsEnd(s, pos + 2) + 1
    ELSE 0

\* versPat.ReplaceAllString(p, "0"), from pos on.
RECURSIVE canonicalFrom(_, _)
canonicalFrom(s, pos) ==
    IF pos > Len(s) THEN <<>>
    ELSE IF canonVersAt(s, pos) # 0
    THEN <<"0">> \o canonicalFrom(s, canonVersAt(s, pos))
    ELSE <<s[pos]>> \o canonicalFrom(s, pos + 1)

canonicalPath(p) == canonicalFrom(p, 1)

\* canonicalPath(impPath) == ctxt.fixPackageCanon
sameFamily(impPath) == canonicalPath(impPath) = fixPackageCanon

RECURSIVE checkPackageGovers(_, _, _), checkImportedGovers(_, _, _, _),
          checkImportsGovers(_, _, _, _, _), checkImportGovers(_, _, _, _, _, _)
checkPackageGovers(st, path, depth) ==
    IF st.overflow THEN st
    ELSE IF depth > MaxDepth THEN [st EXCEPT !.overflow = TRUE]
    ELSE IF isChecked(st, path) THEN st
    ELSE checkImportedGovers([markChecked(st, ImportDot(path))
                                 EXCEPT !.runs = Bump(@, ImportDot(path).ImportPath)],
                             path, ImportDot(path), depth)

\* checkPackage from its test of err on.
checkImportedGovers(st, path, pkg, depth) ==
    IF pkg.err # "nil"
    THEN IF pkg.err # "nogo"
         THEN [st EXCEPT !.stderr = @ \cup {<<"cannot import", path>>}]
         ELSE st
    ELSE checkImportsGovers(st, path, pkg.Imports, 1, depth)

\* The loop over pkg.Imports, from its k-th element on.
checkImportsGovers(st, path, imps, k, depth) ==
    IF k > Len(imps) \/ st.overflow THEN st
    ELSE IF imps[k] = <<"C">> THEN checkImportsGovers(st, path, imps, k + 1, depth)
    ELSE checkImportGovers(st, path, imps, k, depth,
                           sameFamily(imps[k]) /\ imps[k] # newPackage)

\* The loop's body for imps[k]: stale is
\* canonicalPath(impPath) == ctxt.fixPackageCanon && impPath != ctxt.fixPackage.
checkImportGovers(st, path, imps, k, depth, stale) ==
    IF stale /\ notRoot(path)
    THEN checkImportsGovers(
             [st EXCEPT !.failed = TRUE,
                        !.stderr = @ \cup {<<"inconsistent path", path, imps[k]>>}],
             path, imps, k + 1, depth)
    ELSE checkImportsGovers(
             checkPackageGovers(IF stale THEN [st EXCEPT !.needsEdit = @ \cup {path}] ELSE st,
                                IF stale THEN newPackage ELSE imps[k],
                                depth + 1),
             path, imps, k + 1, depth)

\* changeVersion of govers.go: every import of the package's family is set to
\* fixPackage, and the file is rewritten whenever it has one.
changeVersionFromGovers(f, content, same) ==
    IF world[f].parse = "unreadable" THEN [same EXCEPT !.changed = FALSE, !.panic = TRUE]
    ELSE IF ~same.changed THEN same
    ELSE IF ~world[f].creatable
    THEN [same EXCEPT !.log = @ \cup {<<"cannot create file", f>>, <<"cannot write file", f>>}]
    ELSE [same EXCEPT
             !.created = TRUE,
             !.content = [imports |-> {IF sameFamily(q) THEN newPackage ELSE q : q \in content.imports},
                          body |-> IF world[f].parse = "syntax" THEN "BadDecl" ELSE content.body,
                          layout |-> "printed"]]

changeVersionGovers(f, content) ==
    changeVersionFromGovers(
        f, content,
        [changed |-> \E q \in content.imports : sameFamily(q),
         content |-> content,
         log |-> parseLog(f),
         created |-> FALSE,
         panic |-> FALSE])

RECURSIVE editFilesGovers(_, _, _)
editFilesGovers(files, k, acc) ==
    IF k > Len(files) \/ acc.panic THEN acc
    ELSE editFilesGovers(files, k + 1,
                         afterFile(acc, files[k], changeVersionGovers(files[k], acc.disk[files[k]])))

\* main of govers.go up to the construction of the context.
StartGovers ==
    /\ pc = "start"
    /\ fixPackageCanon' = canonicalPath(newPackage)
    /\ pc' = "walk"
    /\ UNCHANGED <<world, disk, noEdit, noDependencies, match, newPackage, oldPackagePat,
                   checked, editPkgs, failed, checkTodo, editTodo, stdout, stderr, exitStatus,
                   runs, written, probe, result>>

\* One iteration of for path := range ctxt.editPkgs { ctxt.checkPackage(path) }.
CheckRootGovers(path) ==
    /\ pc = "check"
    /\ path \in checkTodo
    /\ checkTodo' = checkTodo \ {path}
    /\ checkedTo(checkPackageGovers(checkState, path, 1))
    /\ UNCHANGED <<world, disk, noEdit, noDependencies, match, newPackage, oldPackagePat,
                   fixPackageCanon, editTodo, stdout, written, probe, result>>

\* The first loop is over; the exit on ctxt.failed that followed it is
\* commented out, so the second loop starts whatever the check found.
CheckDoneGovers ==
    /\ pc = "check"
    /\ checkTodo = {}
    /\ pc' = "edit"
    /\ editTodo' = DOMAIN editPkgs
    /\ UNCHANGED <<world, disk, noEdit, noDependencies, match, newPackage, oldPackagePat,
                   fixPackageCanon, checked, editPkgs, failed, checkTodo, stdout, stderr,
                   exitStatus, runs, written, probe, result>>

\* One iteration of the second loop of govers.go.
EditPkgGovers(path) ==
    /\ pc = "edit"
    /\ path \in editTodo
    /\ editTodo' = editTodo \ {path}
    /\ IF skipsPackage(editPkgs[path])
       THEN UNCHANGED <<disk, stdout, stderr, written, pc, exitStatus>>
       ELSE editedTo(path, editFilesGovers(editPkgs[path].goFiles, 1,
                                           [disk |-> disk, changed |-> FALSE, log |-> {},
                                            created |-> {}, panic |-> FALSE]))
    /\ UNCHANGED <<world, noEdit, noDependencies, match, newPackage, oldPackagePat,
                   fixPackageCanon, checked, editPkgs, failed, checkTodo, runs, probe, result>>

InitGovers ==
    /\ InitCommon
    /\ noEdit = FALSE
    /\ noDependencies = FALSE
    /\ newPackage = ArgGovers

NextGovers ==
    \/ StartGovers
    \/ WalkDir
    \/ \E path \in checkTodo : CheckRootGovers(path)
    \/ CheckDoneGovers
    \/ \E path \in editTodo : EditPkgGovers(path)
    \/ EditDone

SpecGovers == InitGovers /\ [][NextGovers]_vars

\* ------------------------------------------------------------------------
\* Properties of part_000
\* ------------------------------------------------------------------------

\* The .go files of the packages walkDir found.
walkedFiles == UNION {Range(editPkgs[q].goFiles) : q \in DOMAIN editPkgs}

\* fixPath(p) != p
wouldChange(q) == fixPath(oldPackagePat, newPackage, q) # q

\* No file has been created, truncated or rewritten.
untouched == disk = initialDisk(world) /\ written = {}

\* checkPackage has reported a package outside the walked tree.
outsideInconsistency ==
    \E m \in stderr : m[1] = "inconsistent path" /\ m[2] \notin DOMAIN editPkgs

\* C1: no file is written before the check phase is over, and once the check
\* has found a package outside the walked tree that imports a path fixPath
\* would change, the run writes no file and exits with status 1.
C1_FailAndDoNothing ==
    /\ ~untouched => checkTodo = {} /\ pc \in {"edit", "exit"}
    /\ outsideInconsistency => untouched /\ (pc = "exit" => exitStatus = 1)

C1_Witness ==
    /\ pc = "exit"
    /\ exitStatus = 1
    /\ outsideInconsistency
    /\ ~noEdit
    /\ \E q \in DOMAIN editPkgs : editPkgs[q].needsEdit

\* C2: after a run without -n that exits with status 0, no import that fixPath
\* would change remains in any .go file of the walked tree.
C2_AllOldImportsRewritten ==
    (pc = "exit" /\ exitStatus = 0 /\ ~noEdit)
        => \A f \in walkedFiles : \A q \in disk[f].imports : ~wouldChange(q)

\* The import graph of the tree: a package's imports (a root's test imports
\* too), and the package an import leads to from it, a root's import being
\* followed as rewritten.
importsOfPkg(dir) ==
    IF Import(dir, <<>>).err # "nil" THEN {} ELSE Range(allImports(dir, Import(dir, <<>>)))

followedImport(dir, q) ==
    Import(IF dir \in DOMAIN editPkgs THEN fixPath(oldPackagePat, newPackage, q) ELSE q,
           dir).ImportPath

oneStep(S) ==
    S \cup {followedImport(e[1], e[2]) : e \in {i \in S \X Range(ImportOrder) : i[2] \in importsOfPkg(i[1])}}

RECURSIVE reachable(_)
reachable(S) == IF oneStep(S) = S THEN S ELSE reachable(oneStep(S))

\* C3: a run without -d that exits with status 0 leaves no package outside the
\* walked tree, reachable from the walked packages, that imports a path
\* fixPath would change.
C3_ExitZeroMeansConsistent ==
    (pc = "exit" /\ exitStatus = 0 /\ ~noDependencies)
        => \A d \in reachable(DOMAIN editPkgs) \ DOMAIN editPkgs :
               \A q \in importsOfPkg(d) : ~wouldChange(q)

\* C4: at the end of a run a package's path has been printed exactly when one
\* of its .go files was modified on disk.
C4_PrintedIffModified ==
    pc = "exit"
        => \A q \in DOMAIN editPkgs :
               q \in stdout <=> \E f \in Range(editPkgs[q].goFiles) :
                                    f \in written \/ disk[f] # initialDisk(world)[f]

\* The exit status the check's results lead to when the second loop runs with
\* *noEdit = n.
runStatus(n) ==
    IF failed THEN 1
    ELSE IF \E q \in DOMAIN editPkgs :
                /\ ~skipsPackage(editPkgs[q])
                /\ editPackage(editPkgs[q], initialDisk(world), n).panic
    THEN 2
    ELSE 0

\* C5: with -n no file is created, truncated or written at any point, and the
\* run ends with the exit status it has without -n.
C5_NoEditWritesNothing ==
    noEdit => untouched /\ (pc = "exit" => exitStatus = runStatus(FALSE))

C5_Witness ==
    /\ noEdit
    /\ pc = "exit"
    /\ exitStatus = 0
    /\ stdout # {}

\* C6: with -d checkPackage's body runs once for each package walkDir found
\* that main's loop has reached and for no other, and failed is never set.
C6_NoDependencyCheck ==
    noDependencies
        => /\ ~failed
           /\ exitStatus # 1
           /\ \A k \in DOMAIN runs : runs[k] = 1 /\ k \in DOMAIN editPkgs \ checkTodo

C6_Witness ==
    /\ noDependencies
    /\ pc = "exit"
    /\ exitStatus = 0
    /\ DirE \in Range(Import(DirR, <<>>).Imports)
    /\ \E q \in importsOfPkg(DirE) : wouldChange(q)

\* C9: once changeVersion has failed to parse a file or to create it, the run
\* has stopped and the file's content is what it was before the run.
C9_ErrorStopsAndKeepsFile ==
    \A f \in FileIds :
        (<<"cannot parse", f>> \in stderr \/ <<"cannot create file", f>> \in stderr)
            => pc = "exit" /\ disk[f] = initialDisk(world)[f]

\* C10: within one run the body of checkPackage runs at most once for each
\* package.
C10_BodyAtMostOnce == \A k \in DOMAIN runs : runs[k] <= 1

\* A version element as the documentation defines it, "(/|\.)v[0-9.]+(-unstable)?"
\* filling a path element, at pos: the position after it, or 0.
RECURSIVE docVersionRun(_, _)
docVersionRun(s, pos) ==
    IF pos <= Len(s) /\ s[pos] \in Digits \cup {"."} THEN docVersionRun(s, pos + 1) ELSE pos

docVersionAt(s, pos) ==
    IF /\ pos + 2 <= Len(s)
       /\ s[pos] \in {"/", "."}
       /\ s[pos + 1] = "v"
       /\ s[pos + 2] \in Digits \cup {"."}
    THEN LET q == docVersionRun(s, pos + 2)
             e == IF HasPrefixAt(s, q, Unstable) THEN q + Len(Unstable) ELSE q
         IN  IF e = Len(s) + 1 \/ (e <= Len(s) /\ s[e] = "/") THEN e ELSE 0
    ELSE 0

\* A path with each of its version elements replaced by "#".
RECURSIVE docSkeleton(_, _)
docSkeleton(s, pos) ==
    IF pos > Len(s) THEN <<>>
    ELSE IF docVersionAt(s, pos) # 0
    THEN <<"#">> \o docSkeleton(s, docVersionAt(s, pos))
    ELSE <<s[pos]>> \o docSkeleton(s, pos + 1)

\* p has a prefix, followed by "/" or the end of p, that is newPkg in all but
\* the version.
docMatches(newPkg, p) ==
    \E i \in 1..Len(p) :
        /\ i = Len(p) \/ p[i + 1] = "/"
        /\ "#" \in Range(docSkeleton(newPkg, 1))
        /\ docSkeleton(SubSeq(p, 1, i), 1) = docSkeleton(newPkg, 1)

\* C7: without -m, the derived pattern matches an import path exactly when the
\* path has a prefix, followed by "/" or the end, equal to new-package-path in
\* all but the version elements "(/|\.)v[0-9.]+(-unstable)?".
C7_DerivedPatternMatchesDoc ==
    pc = "matched"
        => (FindStringSubmatchIndex(oldPackagePat, probe) # -1 <=> docMatches(newPackage, probe))

\* The context main hands to the first call of checkPackage.
checkState0 ==
    [checked |-> {}, needsEdit |-> {}, failed |-> FALSE, stderr |-> {}, runs |-> <<>>,
     overflow |-> FALSE]

\* One order of the entries of a map.
RECURSIVE orderOf(_)
orderOf(S) ==
    IF S = {} THEN <<>>
    ELSE <<CHOOSE d \in S : TRUE>> \o orderOf(S \ {CHOOSE d \in S : TRUE})

\* The first loop of main taken in the order roots, from its k-th entry on.
RECURSIVE checkInOrder(_, _, _)
checkInOrder(st, roots, k) ==
    IF k > Len(roots) THEN st
    ELSE checkInOrder(checkPackage(st, roots[k], Cwd, 1), roots, k + 1)

\* The files the second loop creates when it runs for the packages of needs.
rewrites(needs) ==
    {f \in walkedFiles :
        /\ \E q \in needs : f \in Range(editPkgs[q].goFiles)
        /\ changeVersion(f, disk[f], noEdit).created}

\* The first loop has ended as it ends in the order that led to ref.
sameOutcome(ref) ==
    /\ {q \in DOMAIN editPkgs : editPkgs[q].needsEdit} = ref.needsEdit
    /\ failed = ref.failed
    /\ rewrites({q \in DOMAIN editPkgs : editPkgs[q].needsEdit}) = rewrites(ref.needsEdit)

\* C12: whatever order the first loop of main takes the root packages in, it
\* ends with the packages marked needsEdit, the value of failed and the files
\* to rewrite that it ends with in one fixed order.
C12_OrderIndependent ==
    (pc = "check" /\ checkTodo = {})
        => sameOutcome(checkInOrder(checkState0, orderOf(DOMAIN editPkgs), 1))

\* C11: fixPath is a prefix substitution: a path the old-prefix pattern matches
\* becomes new-package-path followed by what follows the matched prefix; a
\* path the pattern does not match, and a path whose matched prefix is
\* new-package-path already, is returned as it is.
C11_FixPathPrefixSubstitution ==
    pc = "matched"
        => LET i == FindStringSubmatchIndex(oldPackagePat, probe)
           IN  /\ i = -1 => result = probe
               /\ i # -1 => result = newPackage \o SubSeq(probe, i + 1, Len(probe))
               /\ (i # -1 /\ SubSeq(probe, 1, i) = newPackage) => result = probe

C11_Witness ==
    /\ pc = "matched"
    /\ match # <<>>
    /\ result # probe
    /\ FindStringSubmatchIndex(oldPackagePat, probe) \in 1..(Len(probe) - 1)
    /\ Len(result) > Len(newPackage)

\* ------------------------------------------------------------------------
\* Properties of govers.go
\* ------------------------------------------------------------------------

\* C8: once checkPackage has set failed, changeVersion rewrites no file.
C8_FailedRewritesNothing == failed => untouched

====
